---- MODULE Spec2Model ----
(***************************************************************************)
(* Proof-of-existence pallet (barnacle/pallets/poe/src/lib.rs).            *)
(*                                                                         *)
(* The pallet keeps one storage map, Proofs, from a claim to the pair      *)
(* (owner, block number), and offers three dispatchable calls:             *)
(* create_claim, revoke_claim and transfer_claim.  Each call is one        *)
(* action; the runtime dispatches extrinsics one at a time.                *)
(*                                                                         *)
(* Proofs is modelled as the set of (claim, owner, block) entries held by  *)
(* the storage, so that "one entry per claim" is a property of the calls   *)
(* and not of the representation.                                          *)
(***************************************************************************)
EXTENDS Integers, Sequences, FiniteSets, TLC

\* ---- bounds of the model ----
MaxBlock == 2       \* block numbers 0 .. MaxBlock
MaxEvents == 3      \* calls are dispatched while fewer events were deposited

Accounts == {"A", "B", "C"}     \* T::AccountId
Claims == {"k1", "k2"}          \* T::ClassData
Nobody == "nobody"              \* placeholder: no account in this position

VARIABLES Proofs, block, events, result, pc
\* the pallet: storage, block number, deposited events, the outcome of the
\* latest call, and the place the call in progress has reached
pallet_vars == <<Proofs, block, events, result, pc>>

VARIABLES content, wire, decoded, bytes, stage
\* a Content value, its encoding, the value decoded from it, its raw bytes
content_vars == <<content, wire, decoded, bytes, stage>>

vars == <<pallet_vars, content_vars>>

\* ---- origins and authentication ----
\* OriginFor<T>: a signed origin carries an account; Root and None do not.
Origins ==
    [kind : {"Signed"}, who : Accounts] \cup [kind : {"Root", "None"}, who : {Nobody}]

Signed(a) == [kind |-> "Signed", who |-> a]

\* ensure_signed(origin)?  Ok(account) for a signed origin, Err(BadOrigin) otherwise.
ensure_signed(origin) ==
    IF origin.kind = "Signed"
    THEN [ok |-> TRUE, val |-> origin.who, err |-> "none"]
    ELSE [ok |-> FALSE, val |-> Nobody, err |-> "BadOrigin"]

\* ---- the storage map Proofs ----
Entry(claim, owner, bn) == [claim |-> claim, owner |-> owner, block |-> bn]

EntriesOf(m, claim) == {e \in m : e.claim = claim}

\* Proofs::<T>::contains_key(&claim)
contains_key(m, claim) == EntriesOf(m, claim) # {}

\* Proofs::<T>::get(&claim): Some((owner, block)) or None
get(m, claim) ==
    IF contains_key(m, claim)
    THEN [some |-> TRUE, val |-> CHOOSE e \in m : e.claim = claim]
    ELSE [some |-> FALSE, val |-> Entry(claim, Nobody, 0)]

\* Proofs::<T>::remove(&claim)
remove(m, claim) == {e \in m : e.claim # claim}

\* Proofs::<T>::insert(&claim, (owner, block)): the value stored under claim is replaced
insert(m, claim, owner, bn) == remove(m, claim) \cup {Entry(claim, owner, bn)}

\* ---- events ----
ClaimCreated(who, claim) ==
    [name |-> "ClaimCreated", who |-> who, to |-> Nobody, claim |-> claim]
ClaimRevoked(who, claim) ==
    [name |-> "ClaimRevoked", who |-> who, to |-> Nobody, claim |-> claim]
ClaimTransferred(who, to, claim) ==
    [name |-> "ClaimTransferred", who |-> who, to |-> to, claim |-> claim]

\* ---- the outcome of a dispatched call ----
CallOps == {"create_claim", "revoke_claim", "transfer_claim"}

Outcome(op, origin, destination, claim, res) ==
    [op |-> op, origin |-> origin, destination |-> destination,
     claim |-> claim, res |-> res]

NoCall == Outcome("none", [kind |-> "None", who |-> Nobody], Nobody, "none", "none")

\* The call returns Err(e): nothing was written, nothing deposited.
Fail(op, origin, destination, claim, e) ==
    /\ result' = Outcome(op, origin, destination, claim, e)
    /\ UNCHANGED <<Proofs, block, events, pc>>

\* The call wrote the storage, deposited ev, and returns Ok(()).
Commit(op, origin, destination, claim, m, ev) ==
    /\ Proofs' = m
    /\ events' = Append(events, ev)
    /\ result' = Outcome(op, origin, destination, claim, "Ok")
    /\ UNCHANGED <<block, pc>>

\* ---- Content ----
MaxLen == 2                     \* payloads of 0 .. MaxLen bytes
Bytes == {0, 1, 255}            \* the u8 values payloads are drawn from

RECURSIVE SeqsUpTo(_, _)
\* The sequences over S of length at most n.
SeqsUpTo(S, n) ==
    IF n = 0 THEN {<<>>}
    ELSE LET shorter == SeqsUpTo(S, n - 1)
         IN shorter \cup {Append(q, x) : q \in {r \in shorter : Len(r) = n - 1}, x \in S}

\* enum Content { None, Raw(Vec<u8>), IPFS(Vec<u8>), Hyper(Vec<u8>) }
ContentNone == [tag |-> "None", data |-> <<>>]
Raw(vec_u8) == [tag |-> "Raw", data |-> vec_u8]
IPFS(vec_u8) == [tag |-> "IPFS", data |-> vec_u8]
Hyper(vec_u8) == [tag |-> "Hyper", data |-> vec_u8]

\* Payloads whose length takes the two-byte and the four-byte length prefix.
LongPayloads == {[i \in 1..64 |-> 1], [i \in 1..16384 |-> 255]}

Contents ==
    {ContentNone} \cup
    UNION {{Raw(b), IPFS(b), Hyper(b)} : b \in SeqsUpTo(Bytes, MaxLen) \cup LongPayloads}

\* impl Default for Content
default == ContentNone

\* variant: Hyper content converts to no bytes
from_dropsHyper(c) ==
    CASE c.tag = "None" -> <<>>
      [] c.tag = "Raw" -> c.data
      [] c.tag = "IPFS" -> c.data
      [] c.tag = "Hyper" -> <<>>

\* impl From<Content> for Vec<u8>
from(c) ==
    CASE c.tag = "None" -> <<>>
      [] c.tag = "Raw" -> c.data
      [] c.tag = "IPFS" -> c.data
      [] c.tag = "Hyper" -> c.data

is_none(c) == c = ContentNone
is_some(c) == ~is_none(c)
is_ipfs(c) == c.tag = "IPFS"

\* variant: IPFS and Hyper were given the same index
VariantIndex_clash(tag) ==
    CASE tag = "None" -> 0
      [] tag = "Raw" -> 1
      [] tag = "IPFS" -> 2
      [] tag = "Hyper" -> 2

\* The index the derived codec gives each variant: its position in the enum.
VariantIndex(tag) ==
    CASE tag = "None" -> 0
      [] tag = "Raw" -> 1
      [] tag = "IPFS" -> 2
      [] tag = "Hyper" -> 3

\* Compact<u32> length prefix, little endian; the two low bits of the first
\* byte give the mode.  Lengths from 2^30 on use the big-integer mode, which
\* no Vec of the model reaches.
encode_compact(n) ==
    IF n < 64 THEN <<4 * n>>
    ELSE IF n < 16384
    THEN <<(4 * n + 1) % 256, (4 * n + 1) \div 256>>
    ELSE LET v == 4 * n + 2
         IN <<v % 256, (v \div 256) % 256, (v \div 65536) % 256, v \div 16777216>>

CompactError == [ok |-> FALSE, n |-> 0, used |-> 0]

decode_compact(w) ==
    IF Len(w) = 0 THEN CompactError
    ELSE LET mode == w[1] % 4 IN
         IF mode = 0 THEN [ok |-> TRUE, n |-> w[1] \div 4, used |-> 1]
         ELSE IF mode = 1
         THEN IF Len(w) < 2 THEN CompactError
              ELSE LET n == (w[1] + 256 * w[2]) \div 4
                   IN IF n < 64 THEN CompactError
                      ELSE [ok |-> TRUE, n |-> n, used |-> 2]
         ELSE IF mode = 2
         THEN IF Len(w) < 4 THEN CompactError
              ELSE LET n == (w[1] + 256 * w[2] + 65536 * w[3] + 16777216 * w[4]) \div 4
                   IN IF n < 16384 THEN CompactError
                      ELSE [ok |-> TRUE, n |-> n, used |-> 4]
         ELSE CompactError

\* Vec<u8>: the compact length, then the bytes.
encode_vec(v) == encode_compact(Len(v)) \o v

\* #[derive(Encode)]: the variant index, then the fields of the variant.
encode(c) ==
    IF c.tag = "None" THEN <<VariantIndex(c.tag)>>
    ELSE <<VariantIndex(c.tag)>> \o encode_vec(c.data)

DecodeError == [ok |-> FALSE, val |-> ContentNone]

\* The variant whose index is i, holding the payload v.
VariantAt(i, v) ==
    CASE i = 1 -> Raw(v)
      [] i = 2 -> IPFS(v)
      [] i = 3 -> Hyper(v)

\* #[derive(Decode)]: reads the variant index, then the fields it asks for.
decode(w) ==
    IF Len(w) = 0 THEN DecodeError
    ELSE IF w[1] = 0 THEN [ok |-> TRUE, val |-> ContentNone]
    ELSE IF w[1] \notin {1, 2, 3} THEN DecodeError
    ELSE LET rest == SubSeq(w, 2, Len(w))
             len == decode_compact(rest)
         IN IF ~len.ok \/ Len(rest) < len.used + len.n THEN DecodeError
            ELSE [ok |-> TRUE,
                  val |-> VariantAt(w[1], SubSeq(rest, len.used + 1, len.used + len.n))]

\* No Content value is being converted.
ContentIdle ==
    /\ content = default
    /\ wire = <<>>
    /\ decoded = DecodeError
    /\ bytes = <<>>
    /\ stage = "idle"

\* ---- the pallet after genesis ----
PalletInit ==
    /\ Proofs = {}
    /\ block = 0
    /\ events = <<>>
    /\ result = NoCall
    /\ pc = "idle"

Init == PalletInit /\ ContentIdle

\* ---- create_claim ----
\* variant: the existence check is missing
create_claim_noExistenceCheck(origin, claim) ==
    LET sender == ensure_signed(origin) IN
    IF ~sender.ok
    THEN Fail("create_claim", origin, Nobody, claim, sender.err)
    ELSE Commit("create_claim", origin, Nobody, claim,
                insert(Proofs, claim, sender.val, block),
                ClaimCreated(sender.val, claim))

\* variant: the entry records the default block number, not the current one
create_claim_defaultBlock(origin, claim) ==
    LET sender == ensure_signed(origin) IN
    IF ~sender.ok
    THEN Fail("create_claim", origin, Nobody, claim, sender.err)
    ELSE IF contains_key(Proofs, claim)
    THEN Fail("create_claim", origin, Nobody, claim, "ProofAlreadyExist")
    ELSE Commit("create_claim", origin, Nobody, claim,
                insert(Proofs, claim, sender.val, 0),
                ClaimCreated(sender.val, claim))

\* The length bounds of the configuration and the length of each claim.  The
\* pallet declares the bounds and never reads them; the values stand for any
\* configuration in which one claim is too short and the other too long.
MaximumClaimLength == 2
MinimumClaimLength == 1
ClaimLen(claim) == IF claim = "k1" THEN 0 ELSE 3

\* variant: the two length checks are in force
create_claim_lengthChecked(origin, claim) ==
    LET sender == ensure_signed(origin) IN
    IF ClaimLen(claim) > MaximumClaimLength
    THEN Fail("create_claim", origin, Nobody, claim, "ClaimTooBig")
    ELSE IF ClaimLen(claim) < MinimumClaimLength
    THEN Fail("create_claim", origin, Nobody, claim, "ClaimTooSmall")
    ELSE IF ~sender.ok
    THEN Fail("create_claim", origin, Nobody, claim, sender.err)
    ELSE IF contains_key(Proofs, claim)
    THEN Fail("create_claim", origin, Nobody, claim, "ProofAlreadyExist")
    ELSE Commit("create_claim", origin, Nobody, claim,
                insert(Proofs, claim, sender.val, block),
                ClaimCreated(sender.val, claim))

\* variant: the entry records the number of the block to come
create_claim_nextBlock(origin, claim) ==
    LET sender == ensure_signed(origin) IN
    IF ~sender.ok
    THEN Fail("create_claim", origin, Nobody, claim, sender.err)
    ELSE IF contains_key(Proofs, claim)
    THEN Fail("create_claim", origin, Nobody, claim, "ProofAlreadyExist")
    ELSE Commit("create_claim", origin, Nobody, claim,
                insert(Proofs, claim, sender.val, block + 1),
                ClaimCreated(sender.val, claim))

\* variant: the mapping is consulted before the origin is checked
create_claim_existenceFirst(origin, claim) ==
    LET sender == ensure_signed(origin) IN
    IF contains_key(Proofs, claim)
    THEN Fail("create_claim", origin, Nobody, claim, "ProofAlreadyExist")
    ELSE IF ~sender.ok
    THEN Fail("create_claim", origin, Nobody, claim, sender.err)
    ELSE Commit("create_claim", origin, Nobody, claim,
                insert(Proofs, claim, sender.val, block),
                ClaimCreated(sender.val, claim))

create_claim(origin, claim) ==
    LET sender == ensure_signed(origin) IN
    IF ~sender.ok
    THEN Fail("create_claim", origin, Nobody, claim, sender.err)
    ELSE IF contains_key(Proofs, claim)
    THEN Fail("create_claim", origin, Nobody, claim, "ProofAlreadyExist")
    ELSE Commit("create_claim", origin, Nobody, claim,
                insert(Proofs, claim, sender.val, block),
                ClaimCreated(sender.val, claim))

\* ---- revoke_claim ----
\* variant: the whole map is cleared, not the one claim
revoke_claim_removesAll(origin, claim) ==
    LET sender == ensure_signed(origin)
        found == get(Proofs, claim)
        owner == found.val.owner
    IN
    IF ~sender.ok
    THEN Fail("revoke_claim", origin, Nobody, claim, sender.err)
    ELSE IF ~found.some
    THEN Fail("revoke_claim", origin, Nobody, claim, "ClaimNotExist")
    ELSE IF owner # sender.val
    THEN Fail("revoke_claim", origin, Nobody, claim, "NotClaimOwner")
    ELSE Commit("revoke_claim", origin, Nobody, claim,
                {},
                ClaimRevoked(sender.val, claim))

\* variant: the entry is removed before the ownership check
revoke_claim_removeFirst(origin, claim) ==
    LET sender == ensure_signed(origin)
        found == get(Proofs, claim)
        owner == found.val.owner
    IN
    IF ~sender.ok
    THEN Fail("revoke_claim", origin, Nobody, claim, sender.err)
    ELSE IF ~found.some
    THEN Fail("revoke_claim", origin, Nobody, claim, "ClaimNotExist")
    ELSE IF owner # sender.val
    THEN /\ Proofs' = remove(Proofs, claim)
         /\ result' = Outcome("revoke_claim", origin, Nobody, claim, "NotClaimOwner")
         /\ UNCHANGED <<block, events, pc>>
    ELSE Commit("revoke_claim", origin, Nobody, claim,
                remove(Proofs, claim),
                ClaimRevoked(sender.val, claim))

\* variant: the ownership check is missing
revoke_claim_noOwnerCheck(origin, claim) ==
    LET sender == ensure_signed(origin)
        found == get(Proofs, claim)
    IN
    IF ~sender.ok
    THEN Fail("revoke_claim", origin, Nobody, claim, sender.err)
    ELSE IF ~found.some
    THEN Fail("revoke_claim", origin, Nobody, claim, "ClaimNotExist")
    ELSE Commit("revoke_claim", origin, Nobody, claim,
                remove(Proofs, claim),
                ClaimRevoked(sender.val, claim))

\* variant: the entry is not removed
revoke_claim_noRemove(origin, claim) ==
    LET sender == ensure_signed(origin)
        found == get(Proofs, claim)
        owner == found.val.owner
    IN
    IF ~sender.ok
    THEN Fail("revoke_claim", origin, Nobody, claim, sender.err)
    ELSE IF ~found.some
    THEN Fail("revoke_claim", origin, Nobody, claim, "ClaimNotExist")
    ELSE IF owner # sender.val
    THEN Fail("revoke_claim", origin, Nobody, claim, "NotClaimOwner")
    ELSE Commit("revoke_claim", origin, Nobody, claim,
                Proofs,
                ClaimRevoked(sender.val, claim))

revoke_claim(origin, claim) ==
    LET sender == ensure_signed(origin)
        found == get(Proofs, claim)
        owner == found.val.owner
    IN
    IF ~sender.ok
    THEN Fail("revoke_claim", origin, Nobody, claim, sender.err)
    ELSE IF ~found.some
    THEN Fail("revoke_claim", origin, Nobody, claim, "ClaimNotExist")
    ELSE IF owner # sender.val
    THEN Fail("revoke_claim", origin, Nobody, claim, "NotClaimOwner")
    ELSE Commit("revoke_claim", origin, Nobody, claim,
                remove(Proofs, claim),
                ClaimRevoked(sender.val, claim))

\* ---- transfer_claim ----
\* variant: the event names the destination as the sender and the sender as
\* the destination
transfer_claim_swappedEvent(origin, destination, claim) ==
    LET sender == ensure_signed(origin)
        found == get(Proofs, claim)
        owner == found.val.owner
    IN
    IF ~sender.ok
    THEN Fail("transfer_claim", origin, destination, claim, sender.err)
    ELSE IF ~found.some
    THEN Fail("transfer_claim", origin, destination, claim, "ClaimNotExist")
    ELSE IF owner # sender.val
    THEN Fail("transfer_claim", origin, destination, claim, "NotClaimOwner")
    ELSE IF owner = destination
    THEN Fail("transfer_claim", origin, destination, claim, "DestinationIsClaimOwner")
    ELSE Commit("transfer_claim", origin, destination, claim,
                insert(remove(Proofs, claim), claim, destination, block),
                ClaimTransferred(destination, sender.val, claim))

\* variant: the new entry is written next to the old one, which is not removed
transfer_claim_keepsOld(origin, destination, claim) ==
    LET sender == ensure_signed(origin)
        found == get(Proofs, claim)
        owner == found.val.owner
    IN
    IF ~sender.ok
    THEN Fail("transfer_claim", origin, destination, claim, sender.err)
    ELSE IF ~found.some
    THEN Fail("transfer_claim", origin, destination, claim, "ClaimNotExist")
    ELSE IF owner # sender.val
    THEN Fail("transfer_claim", origin, destination, claim, "NotClaimOwner")
    ELSE IF owner = destination
    THEN Fail("transfer_claim", origin, destination, claim, "DestinationIsClaimOwner")
    ELSE Commit("transfer_claim", origin, destination, claim,
                Proofs \cup {Entry(claim, destination, block)},
                ClaimTransferred(sender.val, destination, claim))

\* variant: the entry keeps the block number it was created with
transfer_claim_keepsBlock(origin, destination, claim) ==
    LET sender == ensure_signed(origin)
        found == get(Proofs, claim)
        owner == found.val.owner
    IN
    IF ~sender.ok
    THEN Fail("transfer_claim", origin, destination, claim, sender.err)
    ELSE IF ~found.some
    THEN Fail("transfer_claim", origin, destination, claim, "ClaimNotExist")
    ELSE IF owner # sender.val
    THEN Fail("transfer_claim", origin, destination, claim, "NotClaimOwner")
    ELSE IF owner = destination
    THEN Fail("transfer_claim", origin, destination, claim, "DestinationIsClaimOwner")
    ELSE Commit("transfer_claim", origin, destination, claim,
                insert(remove(Proofs, claim), claim, destination, found.val.block),
                ClaimTransferred(sender.val, destination, claim))

\* variant: the destination check is missing
transfer_claim_noDestinationCheck(origin, destination, claim) ==
    LET sender == ensure_signed(origin)
        found == get(Proofs, claim)
        owner == found.val.owner
    IN
    IF ~sender.ok
    THEN Fail("transfer_claim", origin, destination, claim, sender.err)
    ELSE IF ~found.some
    THEN Fail("transfer_claim", origin, destination, claim, "ClaimNotExist")
    ELSE IF owner # sender.val
    THEN Fail("transfer_claim", origin, destination, claim, "NotClaimOwner")
    ELSE Commit("transfer_claim", origin, destination, claim,
                insert(remove(Proofs, claim), claim, destination, block),
                ClaimTransferred(sender.val, destination, claim))

\* variant: the destination is compared with the stored owner before the sender is
transfer_claim_destinationFirst(origin, destination, claim) ==
    LET sender == ensure_signed(origin)
        found == get(Proofs, claim)
        owner == found.val.owner
    IN
    IF ~sender.ok
    THEN Fail("transfer_claim", origin, destination, claim, sender.err)
    ELSE IF ~found.some
    THEN Fail("transfer_claim", origin, destination, claim, "ClaimNotExist")
    ELSE IF owner = destination
    THEN Fail("transfer_claim", origin, destination, claim, "DestinationIsClaimOwner")
    ELSE IF owner # sender.val
    THEN Fail("transfer_claim", origin, destination, claim, "NotClaimOwner")
    ELSE Commit("transfer_claim", origin, destination, claim,
                insert(remove(Proofs, claim), claim, destination, block),
                ClaimTransferred(sender.val, destination, claim))

\* variant: a transfer to oneself is rejected before the claim is looked up
transfer_claim_selfCheckFirst(origin, destination, claim) ==
    LET sender == ensure_signed(origin)
        found == get(Proofs, claim)
        owner == found.val.owner
    IN
    IF ~sender.ok
    THEN Fail("transfer_claim", origin, destination, claim, sender.err)
    ELSE IF sender.val = destination
    THEN Fail("transfer_claim", origin, destination, claim, "DestinationIsClaimOwner")
    ELSE IF ~found.some
    THEN Fail("transfer_claim", origin, destination, claim, "ClaimNotExist")
    ELSE IF owner # sender.val
    THEN Fail("transfer_claim", origin, destination, claim, "NotClaimOwner")
    ELSE IF owner = destination
    THEN Fail("transfer_claim", origin, destination, claim, "DestinationIsClaimOwner")
    ELSE Commit("transfer_claim", origin, destination, claim,
                insert(remove(Proofs, claim), claim, destination, block),
                ClaimTransferred(sender.val, destination, claim))

transfer_claim(origin, destination, claim) ==
    LET sender == ensure_signed(origin)
        found == get(Proofs, claim)
        owner == found.val.owner
    IN
    IF ~sender.ok
    THEN Fail("transfer_claim", origin, destination, claim, sender.err)
    ELSE IF ~found.some
    THEN Fail("transfer_claim", origin, destination, claim, "ClaimNotExist")
    ELSE IF owner # sender.val
    THEN Fail("transfer_claim", origin, destination, claim, "NotClaimOwner")
    ELSE IF owner = destination
    THEN Fail("transfer_claim", origin, destination, claim, "DestinationIsClaimOwner")
    ELSE Commit("transfer_claim", origin, destination, claim,
                insert(remove(Proofs, claim), claim, destination, block),
                ClaimTransferred(sender.val, destination, claim))

\* ---- the block number advances between extrinsics ----
NextBlock ==
    /\ block < MaxBlock
    /\ block' = block + 1
    /\ result' = NoCall
    /\ UNCHANGED <<Proofs, events, pc, content_vars>>

CreateClaim ==
    /\ Len(events) < MaxEvents
    /\ \E origin \in Origins, claim \in Claims : create_claim(origin, claim)
    /\ UNCHANGED content_vars

RevokeClaim ==
    /\ Len(events) < MaxEvents
    /\ \E origin \in Origins, claim \in Claims : revoke_claim(origin, claim)
    /\ UNCHANGED content_vars

TransferClaim ==
    /\ Len(events) < MaxEvents
    /\ \E origin \in Origins, destination \in Accounts, claim \in Claims :
          transfer_claim(origin, destination, claim)
    /\ UNCHANGED content_vars

Next == CreateClaim \/ RevokeClaim \/ TransferClaim \/ NextBlock

Spec == Init /\ [][Next]_vars

\* ---- the calls, statement by statement ----
\* The same three calls with every storage write and the deposit_event as a
\* step of its own; pc names the statement the call in progress has reached
\* and result holds that call, pending until it returns.

\* The checks passed and the first write m is done; the call goes on at next.
Begin(op, origin, destination, claim, m, next) ==
    /\ Proofs' = m
    /\ pc' = next
    /\ result' = Outcome(op, origin, destination, claim, "pending")
    /\ UNCHANGED <<block, events>>

\* deposit_event(ev); Ok(().into())
Deposit(ev) ==
    /\ events' = Append(events, ev)
    /\ result' = [result EXCEPT !.res = "Ok"]
    /\ pc' = "idle"
    /\ UNCHANGED <<Proofs, block>>

\* create_claim up to and including Proofs::insert
create_claim_insert(origin, claim) ==
    LET sender == ensure_signed(origin) IN
    IF ~sender.ok
    THEN Fail("create_claim", origin, Nobody, claim, sender.err)
    ELSE IF contains_key(Proofs, claim)
    THEN Fail("create_claim", origin, Nobody, claim, "ProofAlreadyExist")
    ELSE Begin("create_claim", origin, Nobody, claim,
               insert(Proofs, claim, sender.val, block), "create_deposit")

create_claim_deposit ==
    /\ pc = "create_deposit"
    /\ Deposit(ClaimCreated(result.origin.who, result.claim))

\* revoke_claim up to and including Proofs::remove
revoke_claim_remove(origin, claim) ==
    LET sender == ensure_signed(origin)
        found == get(Proofs, claim)
        owner == found.val.owner
    IN
    IF ~sender.ok
    THEN Fail("revoke_claim", origin, Nobody, claim, sender.err)
    ELSE IF ~found.some
    THEN Fail("revoke_claim", origin, Nobody, claim, "ClaimNotExist")
    ELSE IF owner # sender.val
    THEN Fail("revoke_claim", origin, Nobody, claim, "NotClaimOwner")
    ELSE Begin("revoke_claim", origin, Nobody, claim,
               remove(Proofs, claim), "revoke_deposit")

revoke_claim_deposit ==
    /\ pc = "revoke_deposit"
    /\ Deposit(ClaimRevoked(result.origin.who, result.claim))

\* transfer_claim up to and including Proofs::remove
transfer_claim_remove(origin, destination, claim) ==
    LET sender == ensure_signed(origin)
        found == get(Proofs, claim)
        owner == found.val.owner
    IN
    IF ~sender.ok
    THEN Fail("transfer_claim", origin, destination, claim, sender.err)
    ELSE IF ~found.some
    THEN Fail("transfer_claim", origin, destination, claim, "ClaimNotExist")
    ELSE IF owner # sender.val
    THEN Fail("transfer_claim", origin, destination, claim, "NotClaimOwner")
    ELSE IF owner = destination
    THEN Fail("transfer_claim", origin, destination, claim, "DestinationIsClaimOwner")
    ELSE Begin("transfer_claim", origin, destination, claim,
               remove(Proofs, claim), "transfer_insert")

\* transfer_claim: Proofs::insert(&claim, (destination, block_number()))
transfer_claim_insert ==
    /\ pc = "transfer_insert"
    /\ Proofs' = insert(Proofs, result.claim, result.destination, block)
    /\ pc' = "transfer_deposit"
    /\ UNCHANGED <<block, events, result>>

\* variant: the event names the destination as the sender and the sender as
\* the destination
transfer_claim_deposit_swapped ==
    /\ pc = "transfer_deposit"
    /\ Deposit(ClaimTransferred(result.destination, result.origin.who, result.claim))

transfer_claim_deposit ==
    /\ pc = "transfer_deposit"
    /\ Deposit(ClaimTransferred(result.origin.who, result.destination, result.claim))

\* variant: a call is dispatched while another one is in progress
Unserialized(A) == A

\* The host dispatches one call at a time, to completion: a call, or a new
\* block, begins only when no call is in progress.
Serialized(A) == pc = "idle" /\ A

BeginCreate ==
    /\ Serialized(/\ Len(events) < MaxEvents
                  /\ \E origin \in Origins, claim \in Claims :
                        create_claim_insert(origin, claim))
    /\ UNCHANGED content_vars

CreateDeposit == create_claim_deposit /\ UNCHANGED content_vars

BeginRevoke ==
    /\ Serialized(/\ Len(events) < MaxEvents
                  /\ \E origin \in Origins, claim \in Claims :
                        revoke_claim_remove(origin, claim))
    /\ UNCHANGED content_vars

RevokeDeposit == revoke_claim_deposit /\ UNCHANGED content_vars

BeginTransfer ==
    /\ Serialized(/\ Len(events) < MaxEvents
                  /\ \E origin \in Origins, destination \in Accounts, claim \in Claims :
                        transfer_claim_remove(origin, destination, claim))
    /\ UNCHANGED content_vars

TransferInsert == transfer_claim_insert /\ UNCHANGED content_vars

TransferDeposit == transfer_claim_deposit /\ UNCHANGED content_vars

BlockBoundary == Serialized(NextBlock)

NextStep ==
    \/ BeginCreate \/ CreateDeposit
    \/ BeginRevoke \/ RevokeDeposit
    \/ BeginTransfer \/ TransferInsert \/ TransferDeposit
    \/ BlockBoundary

SpecSteps == Init /\ [][NextStep]_vars

\* ---- a Content value through the codec ----
\* Any Content value; it is encoded, the encoding is decoded, and the value
\* is converted into its bytes.
ContentInit ==
    /\ PalletInit
    /\ content \in Contents
    /\ wire = <<>>
    /\ decoded = DecodeError
    /\ bytes = <<>>
    /\ stage = "new"

EncodeContent ==
    /\ stage = "new"
    /\ wire' = encode(content)
    /\ stage' = "encoded"
    /\ UNCHANGED <<content, decoded, bytes, pallet_vars>>

DecodeContent ==
    /\ stage = "encoded"
    /\ decoded' = decode(wire)
    /\ stage' = "decoded"
    /\ UNCHANGED <<content, wire, bytes, pallet_vars>>

IntoBytes ==
    /\ stage = "decoded"
    /\ bytes' = from(content)
    /\ stage' = "converted"
    /\ UNCHANGED <<content, wire, decoded, pallet_vars>>

ContentNext == EncodeContent \/ DecodeContent \/ IntoBytes

SpecContent == ContentInit /\ [][ContentNext]_vars

TypeOK ==
    /\ Proofs \subseteq [claim : Claims, owner : Accounts, block : 0..MaxBlock]
    /\ block \in 0..MaxBlock
    /\ Len(events) <= MaxEvents
    /\ result.op \in CallOps \cup {"none"}
    /\ pc \in {"idle", "create_deposit", "revoke_deposit",
               "transfer_insert", "transfer_deposit"}
    /\ stage \in {"idle", "new", "encoded", "decoded", "converted"}

\* ---- vocabulary of the properties ----
\* The accounts that own claim in the mapping m.
OwnersOf(m, claim) == {e.owner : e \in EntriesOf(m, claim)}

\* claim is held by owner in the mapping m.
OwnedBy(m, claim, owner) == get(m, claim).some /\ get(m, claim).val.owner = owner

\* The step dispatches op with this origin, destination and claim.
Dispatched(op, origin, destination, claim) ==
    /\ result'.op = op
    /\ result'.origin = origin
    /\ result'.destination = destination
    /\ result'.claim = claim

Errors ==
    {"ProofAlreadyExist", "ClaimNotExist", "NotClaimOwner",
     "DestinationIsClaimOwner", "BadOrigin"}

LastEvent == events[Len(events)]

C2_ErrorLeavesStateAlone ==
    [][(result'.op \in CallOps /\ result'.res \in Errors)
         => (Proofs' = Proofs /\ events' = events)]_vars

\* A call has just failed on a non-empty mapping with events already deposited.
C2_Witness ==
    /\ result.op \in CallOps /\ result.res \in Errors
    /\ Proofs # {} /\ events # <<>>

\* C3: create_claim of a claim already in the mapping fails with
\* ProofAlreadyExist, whoever calls, and the entry keeps its owner and block.
C3_CreateRejectsDuplicate ==
    [][\A b \in Accounts, k \in Claims :
         (Dispatched("create_claim", Signed(b), Nobody, k) /\ contains_key(Proofs, k))
           => /\ result'.res = "ProofAlreadyExist"
              /\ EntriesOf(Proofs', k) = EntriesOf(Proofs, k)]_vars

\* A create_claim by an account other than the owner has just been rejected.
C3_Witness ==
    /\ result.op = "create_claim" /\ result.res = "ProofAlreadyExist"
    /\ get(Proofs, result.claim).some
    /\ get(Proofs, result.claim).val.owner # result.origin.who

\* C4: create_claim of an absent claim by a signed caller succeeds and stores
\* (caller, current block number) under the claim.
C4_CreateInserts ==
    [][\A a \in Accounts, k \in Claims :
         (Dispatched("create_claim", Signed(a), Nobody, k) /\ ~contains_key(Proofs, k))
           => /\ result'.res = "Ok"
              /\ EntriesOf(Proofs', k) = {Entry(k, a, block)}]_vars

\* A claim has just been created at a block number other than the initial one.
C4_Witness ==
    /\ result.op = "create_claim" /\ result.res = "Ok"
    /\ block > 0
    /\ get(Proofs, result.claim).val = Entry(result.claim, result.origin.who, block)

\* C5: revoke_claim by an account that is not the stored owner fails with
\* NotClaimOwner and the claim stays with its owner.
C5_RevokeNeedsOwner ==
    [][\A a \in Accounts, b \in Accounts, k \in Claims :
         (Dispatched("revoke_claim", Signed(b), Nobody, k) /\ OwnedBy(Proofs, k, a) /\ a # b)
           => /\ result'.res = "NotClaimOwner"
              /\ OwnedBy(Proofs', k, a)]_vars

\* A revoke_claim by a non-owner has just been rejected.
C5_Witness ==
    /\ result.op = "revoke_claim" /\ result.res = "NotClaimOwner"
    /\ get(Proofs, result.claim).some
    /\ get(Proofs, result.claim).val.owner # result.origin.who

\* C6: revoke_claim by the owner succeeds and removes the claim; as long as
\* that revocation is the latest event, create_claim of the claim by any
\* account succeeds and makes it the owner at the current block number.
C6_RevokeRemoves ==
    [][\A a \in Accounts, k \in Claims :
         /\ (Dispatched("revoke_claim", Signed(a), Nobody, k) /\ OwnedBy(Proofs, k, a))
              => /\ result'.res = "Ok"
                 /\ ~contains_key(Proofs', k)
         /\ ( /\ Dispatched("create_claim", Signed(a), Nobody, k)
              /\ events # <<>>
              /\ LastEvent.name = "ClaimRevoked" /\ LastEvent.claim = k )
              => /\ result'.res = "Ok"
                 /\ EntriesOf(Proofs', k) = {Entry(k, a, block)}]_vars

\* A claim was created, revoked by its owner and has just been created again
\* by another account.
C6_Witness ==
    /\ Len(events) = 3
    /\ events[1].name = "ClaimCreated"
    /\ events[2] = ClaimRevoked(events[1].who, events[1].claim)
    /\ events[3].name = "ClaimCreated" /\ events[3].claim = events[1].claim
    /\ events[3].who # events[1].who
    /\ result.op = "create_claim" /\ result.res = "Ok"
    /\ OwnedBy(Proofs, events[1].claim, events[3].who)

\* C7: transfer_claim by the owner to another account succeeds; the claim is
\* then held by the destination at the block number of the transfer, and the
\* sender no longer owns it.
C7_TransferMovesClaim ==
    [][\A a \in Accounts, b \in Accounts, k \in Claims :
         ( /\ Dispatched("transfer_claim", Signed(a), b, k)
           /\ OwnedBy(Proofs, k, a) /\ b # a
           /\ get(Proofs, k).val.block <= block )
           => /\ result'.res = "Ok"
              /\ EntriesOf(Proofs', k) = {Entry(k, b, block)}
              /\ ~OwnedBy(Proofs', k, a)
              /\ (get(Proofs, k).val.block < block
                    => get(Proofs', k).val.block # get(Proofs, k).val.block)]_vars

\* k1 was created before k2, k2 at block 0, and k1 has just been transferred
\* at a later block: the transfer happened after the block k1 was created at.
C7_Witness ==
    /\ result.op = "transfer_claim" /\ result.res = "Ok" /\ result.claim = "k1"
    /\ Len(events) = 3
    /\ events[1].name = "ClaimCreated" /\ events[1].claim = "k1"
    /\ events[2].name = "ClaimCreated" /\ events[2].claim = "k2"
    /\ events[3] = ClaimTransferred(events[1].who, result.destination, "k1")
    /\ get(Proofs, "k2").val.block = 0
    /\ get(Proofs, "k1").val.block > 0
    /\ OwnedBy(Proofs, "k1", result.destination)

\* C8: transfer_claim by the owner to itself fails with
\* DestinationIsClaimOwner and the entry keeps its owner and block number.
C8_SelfTransferRejected ==
    [][\A a \in Accounts, k \in Claims :
         (Dispatched("transfer_claim", Signed(a), a, k) /\ OwnedBy(Proofs, k, a))
           => /\ result'.res = "DestinationIsClaimOwner"
              /\ EntriesOf(Proofs', k) = EntriesOf(Proofs, k)]_vars

\* A self-transfer has just been rejected at a block later than the entry's.
C8_Witness ==
    /\ result.op = "transfer_claim" /\ result.res = "DestinationIsClaimOwner"
    /\ result.destination = result.origin.who
    /\ OwnedBy(Proofs, result.claim, result.origin.who)
    /\ get(Proofs, result.claim).val.block < block

\* C9 as stated: transfer_claim to the stored owner fails with
\* DestinationIsClaimOwner for every signed caller.
C9_AnyCallerDestinationIsOwner ==
    [][\A c \in Accounts, d \in Accounts, k \in Claims :
         (Dispatched("transfer_claim", Signed(c), d, k) /\ OwnedBy(Proofs, k, d))
           => result'.res = "DestinationIsClaimOwner"]_vars

\* C9: transfer_claim to the stored owner fails for every signed caller: with
\* DestinationIsClaimOwner when the caller is that owner, with NotClaimOwner
\* when it is not.
C9_TransferToOwnerFails ==
    [][\A c \in Accounts, d \in Accounts, k \in Claims :
         (Dispatched("transfer_claim", Signed(c), d, k) /\ OwnedBy(Proofs, k, d))
           => result'.res =
                IF c = d THEN "DestinationIsClaimOwner" ELSE "NotClaimOwner"]_vars

\* A non-owner has just tried to transfer a claim to its stored owner.
C9_Witness ==
    /\ result.op = "transfer_claim" /\ result.res = "NotClaimOwner"
    /\ OwnedBy(Proofs, result.claim, result.destination)
    /\ result.origin.who # result.destination

\* C10: revoke_claim and transfer_claim of a claim that is not in the mapping
\* fail with ClaimNotExist for every signed caller and every destination.
C10_AbsentClaimNotExist ==
    [][\A c \in Accounts, k \in Claims :
         ~contains_key(Proofs, k)
           => /\ Dispatched("revoke_claim", Signed(c), Nobody, k)
                   => result'.res = "ClaimNotExist"
              /\ \A d \in Accounts :
                   Dispatched("transfer_claim", Signed(c), d, k)
                   => result'.res = "ClaimNotExist"]_vars

\* A claim was created and revoked, and a transfer of it by an account to
\* itself has just been rejected.
C10_Witness ==
    /\ result.op = "transfer_claim" /\ result.res = "ClaimNotExist"
    /\ result.destination = result.origin.who
    /\ events # <<>>
    /\ LastEvent.name = "ClaimRevoked" /\ LastEvent.claim = result.claim
    /\ ~contains_key(Proofs, result.claim)

\* C11: a call whose origin is not signed returns BadOrigin whatever the
\* mapping holds under the claim, writes nothing and deposits no event.
C11_BadOriginFirst ==
    [][\A o \in Origins :
         (result'.op \in CallOps /\ result'.origin = o /\ o.kind # "Signed")
           => /\ result'.res = "BadOrigin"
              /\ Proofs' = Proofs
              /\ events' = events]_vars

\* An unsigned create_claim of a claim that is in the mapping has just been
\* turned down.
C11_Witness ==
    /\ result.op = "create_claim" /\ result.origin.kind # "Signed"
    /\ result.res = "BadOrigin"
    /\ contains_key(Proofs, result.claim)

\* C12: while a call is in progress no other call is dispatched and no block
\* begins: the only step is the next statement of that call.  In particular
\* no create_claim of a claim gets anywhere between the remove and the insert
\* of a transfer_claim of it.
C12_NoPartialCallObserved ==
    [][pc # "idle"
         => /\ pc' # pc
            /\ block' = block
            /\ result'.op = result.op
            /\ result'.origin = result.origin
            /\ result'.destination = result.destination
            /\ result'.claim = result.claim
            /\ (pc = "transfer_insert"
                  => /\ ~contains_key(Proofs, result.claim)
                     /\ result'.op # "create_claim"
                     /\ EntriesOf(Proofs', result.claim)
                          = {Entry(result.claim, result.destination, block)})]_vars

\* A transfer_claim has removed the entry and not yet inserted the new one,
\* while the other claim is held by a third account.
C12_Witness ==
    /\ pc = "transfer_insert" /\ result.op = "transfer_claim"
    /\ ~contains_key(Proofs, result.claim)
    /\ \E e \in Proofs : e.owner \notin {result.origin.who, result.destination}

\* The event a successful call deposits.
EventOf(call) ==
    CASE call.op = "create_claim" -> ClaimCreated(call.origin.who, call.claim)
      [] call.op = "revoke_claim" -> ClaimRevoked(call.origin.who, call.claim)
      [] call.op = "transfer_claim" ->
            ClaimTransferred(call.origin.who, call.destination, call.claim)

\* The mapping m holds what the successful call writes under its claim.
Written(call, m) ==
    CASE call.op = "create_claim" ->
            EntriesOf(m, call.claim) = {Entry(call.claim, call.origin.who, block)}
      [] call.op = "revoke_claim" -> ~contains_key(m, call.claim)
      [] call.op = "transfer_claim" ->
            EntriesOf(m, call.claim) = {Entry(call.claim, call.destination, block)}

\* C13: a call that returns Ok has deposited exactly one event, the one of
\* its kind with its own sender, destination and claim, and deposited it when
\* its write to the mapping was already done; no other step deposits an event.
C13_OneEventPerSuccess ==
    [][/\ (result'.op \in CallOps /\ result'.res = "Ok" /\ result' # result)
          => /\ events' = Append(events, EventOf(result'))
             /\ Written(result', Proofs)
             /\ Proofs' = Proofs
       /\ (events' # events)
          => /\ result'.res = "Ok"
             /\ result.res = "pending"
             /\ Len(events') = Len(events) + 1]_vars

\* A transfer_claim has just returned Ok, after the creation of both claims.
C13_Witness ==
    /\ pc = "idle" /\ result.op = "transfer_claim" /\ result.res = "Ok"
    /\ Len(events) = 3
    /\ events[1].name = "ClaimCreated" /\ events[2].name = "ClaimCreated"
    /\ LastEvent = ClaimTransferred(result.origin.who, result.destination, result.claim)

\* The payload a Content value was built with; None has none.
Payload(c) == IF c.tag = "None" THEN <<>> ELSE c.data

\* C14: decoding the encoding of a Content value gives the value back, and
\* converting the value into bytes gives its payload, empty for None.
C14_ContentRoundTrip ==
    /\ stage \in {"decoded", "converted"} => decoded = [ok |-> TRUE, val |-> content]
    /\ stage = "converted" => bytes = Payload(content)

\* A Hyper value with an empty payload went through the codec and was converted.
C14_Witness ==
    /\ stage = "converted"
    /\ content = Hyper(<<>>)
    /\ wire = <<3, 0>>
    /\ decoded.ok /\ decoded.val = content
    /\ bytes = <<>>

\* C15: transfer_claim by a signed caller returns ClaimNotExist when the claim
\* is absent; else NotClaimOwner when the stored owner is not the caller; else
\* DestinationIsClaimOwner when the destination is the caller; else Ok.
C15_TransferCheckOrder ==
    [][\A c \in Accounts, d \in Accounts, k \in Claims :
         Dispatched("transfer_claim", Signed(c), d, k)
           => result'.res =
                IF ~contains_key(Proofs, k) THEN "ClaimNotExist"
                ELSE IF ~OwnedBy(Proofs, k, c) THEN "NotClaimOwner"
                ELSE IF d = c THEN "DestinationIsClaimOwner"
                ELSE "Ok"]_vars

\* A non-owner has just tried to transfer a claim that is in the mapping to
\* itself, and was told it is not the owner.
C15_Witness ==
    /\ result.op = "transfer_claim" /\ result.res = "NotClaimOwner"
    /\ result.destination = result.origin.who
    /\ contains_key(Proofs, result.claim)
    /\ ~OwnedBy(Proofs, result.claim, result.origin.who)

\* C16: no call returns ClaimTooBig or ClaimTooSmall, and what a signed
\* create_claim returns depends only on whether the claim is in the mapping,
\* not on its length.
C16_NoLengthErrors ==
    /\ [](result.res \notin {"ClaimTooBig", "ClaimTooSmall"})
    /\ [][\A a \in Accounts, k \in Claims :
            Dispatched("create_claim", Signed(a), Nobody, k)
              => result'.res =
                   IF contains_key(Proofs, k) THEN "ProofAlreadyExist" ELSE "Ok"]_vars

\* A claim shorter than the minimum and one longer than the maximum are both
\* in the mapping.
C16_Witness ==
    /\ \E k \in Claims : ClaimLen(k) < MinimumClaimLength /\ contains_key(Proofs, k)
    /\ \E k \in Claims : ClaimLen(k) > MaximumClaimLength /\ contains_key(Proofs, k)
    /\ result.op = "create_claim" /\ result.res = "Ok"

\* C17: a call on a claim, whatever it returns, leaves the entry of every
\* other claim as it was: present or not, its owner and its block number.
C17_OtherClaimsUntouched ==
    [][\A k \in Claims :
         (result'.op \in CallOps /\ result'.claim = k)
           => \A other \in Claims \ {k} :
                EntriesOf(Proofs', other) = EntriesOf(Proofs, other)]_vars

\* A revoke_claim has just removed one claim while the other one is held.
C17_Witness ==
    /\ result.op = "revoke_claim" /\ result.res = "Ok"
    /\ ~contains_key(Proofs, result.claim)
    /\ \E other \in Claims \ {result.claim} : contains_key(Proofs, other)

\* C18: the entry of a claim that is in the mapping changes or goes away only
\* in a revoke_claim or transfer_claim of that claim which returns Ok and
\* whose sender is the owner stored before the step.
C18_OnlyOwnerChangesEntry ==
    [][\A k \in Claims :
         (contains_key(Proofs, k) /\ EntriesOf(Proofs', k) # EntriesOf(Proofs, k))
           => /\ result'.op \in {"revoke_claim", "transfer_claim"}
              /\ result'.res = "Ok"
              /\ result'.claim = k
              /\ result'.origin = Signed(get(Proofs, k).val.owner)]_vars

\* A claim was created by one account, transferred, and has just been revoked
\* by the account it was transferred to.
C18_Witness ==
    /\ Len(events) = 3
    /\ events[1].name = "ClaimCreated"
    /\ events[2] = ClaimTransferred(events[1].who, events[2].to, events[1].claim)
    /\ events[3] = ClaimRevoked(events[2].to, events[1].claim)
    /\ result.op = "revoke_claim" /\ result.res = "Ok"
    /\ ~contains_key(Proofs, events[1].claim)

\* The positions of the events that name claim.
EventsOf(claim) == {i \in 1..Len(events) : events[i].claim = claim}

\* The latest event that names claim; EventsOf(claim) is not empty.
LatestEventOf(claim) ==
    events[CHOOSE i \in EventsOf(claim) : \A j \in EventsOf(claim) : j <= i]

\* The latest event that names claim says that owner now holds it.
LatestGives(claim, owner) ==
    /\ EventsOf(claim) # {}
    /\ \/ LatestEventOf(claim) = ClaimCreated(owner, claim)
       \/ /\ LatestEventOf(claim).name = "ClaimTransferred"
          /\ LatestEventOf(claim).to = owner

\* C19: a claim is held by an account exactly when the latest event naming
\* the claim is its creation by that account or its transfer to that
\* account; it is absent exactly when no event names it or the latest one is
\* its revocation.
C19_EventsMatchMapping ==
    \A k \in Claims :
        /\ \A o \in Accounts : OwnedBy(Proofs, k, o) <=> LatestGives(k, o)
        /\ ~contains_key(Proofs, k)
             <=> (EventsOf(k) = {} \/ LatestEventOf(k).name = "ClaimRevoked")

\* One claim was created and then transferred, and is held by the destination;
\* the other one was created in between and is held by its creator, so the
\* latest event of a claim is not always the latest of the stream.
C19_Witness ==
    \E k \in Claims, other \in Claims, a \in Accounts, b \in Accounts :
       /\ a # b /\ k # other
       /\ events = <<ClaimCreated(a, k), ClaimTransferred(a, b, k), ClaimCreated(a, other)>>
       /\ LatestEventOf(k) = ClaimTransferred(a, b, k)
       /\ OwnedBy(Proofs, k, b)
       /\ OwnedBy(Proofs, other, a)

\* C20: no entry records a block number above the current one; the block
\* number of an entry that stays in the mapping never goes down, and changes
\* only in a transfer_claim of the claim that returns Ok, to the current
\* block number.
C20_RecordedBlocks ==
    /\ [](\A e \in Proofs : e.block <= block)
    /\ [][\A k \in Claims :
            (contains_key(Proofs, k) /\ contains_key(Proofs', k))
              => /\ get(Proofs', k).val.block >= get(Proofs, k).val.block
                 /\ get(Proofs', k).val.block # get(Proofs, k).val.block
                      => /\ result'.op = "transfer_claim"
                         /\ result'.res = "Ok"
                         /\ result'.claim = k
                         /\ get(Proofs', k).val.block = block]_vars

\* A claim created at block 0 is still held with that number at a later
\* block, and the other claim has just been transferred at the current block.
C20_Witness ==
    /\ block > 0
    /\ \E k \in Claims, other \in Claims :
          /\ k # other
          /\ get(Proofs, k).some /\ get(Proofs, k).val.block = 0
          /\ get(Proofs, other).some /\ get(Proofs, other).val.block = block
          /\ result.op = "transfer_claim" /\ result.res = "Ok"
          /\ result.claim = other
====
